---- MODULE Spec2Model ----
(***************************************************************************)
(* Model of ezomero's import orchestration (src/ezomero/_importer.py):     *)
(* the module function ezimport, the Importer class, the three             *)
(* set_or_create_* resolvers and multi_post_map_annotation, running        *)
(* against an OMERO server seen through its create / link / query calls.   *)
(* One caller runs one entry point; every remote call is one step, so that *)
(* another client of the same server can act between two calls.            *)
(***************************************************************************)
EXTENDS Integers, Sequences, FiniteSets, TLC

\* ------------------------------------------------------------- bounds
MaxImages == 2      \* images one import creates, at most
MaxPlates == 2      \* plates one import creates, at most
MaxVals == 2        \* length of a list value of the annotation dict, at most
MaxCalls == 2       \* direct set_or_create_* calls of one caller, at most

\* ------------------------------------------------------ Python values
\* One record shape for every Python value the code inspects: its type name
\* and its payload (n: number, s: string, v: items).
PyNone == [t |-> "NoneType", n |-> 0, s |-> "", v |-> <<>>]
PyInt(i) == [t |-> "int", n |-> i, s |-> "", v |-> <<>>]
PyStr(x) == [t |-> "str", n |-> 0, s |-> x, v |-> <<>>]
PyList(items) == [t |-> "list", n |-> 0, s |-> "", v |-> items]
PyDict(items) == [t |-> "dict", n |-> 0, s |-> "", v |-> items]
PyFloat == [t |-> "float", n |-> 0, s |-> "1.5", v |-> <<>>]
PyTrue == [t |-> "bool", n |-> 1, s |-> "", v |-> <<>>]
PyFalse == [t |-> "bool", n |-> 0, s |-> "", v |-> <<>>]

\* `x is not None` in the place of Python's truth value
IsNotNone(x) == x.t # "NoneType"

\* Python's truth value of x, as `if x:` and `not x` use it.
Truthy(x) ==
    CASE x.t = "NoneType" -> FALSE
      [] x.t \in {"int", "bool"} -> x.n # 0
      [] x.t = "str" -> x.s # ""
      [] x.t \in {"list", "dict"} -> x.v # <<>>
      [] OTHER -> TRUE

\* str(x)
PyToStr(x) ==
    CASE x.t = "str" -> x.s
      [] x.t = "int" -> ToString(x.n)
      [] x.t = "NoneType" -> "None"
      [] OTHER -> x.s

\* The id a missing container has (project_id = None, dataset_id = None).
NoneId == -1

\* ------------------------------------------------------------ domains
ImageIds == 101..(100 + MaxImages)
PlateIds == 55..(54 + MaxPlates)
Prefixes(first, n) == { [i \in 1..k |-> first + i - 1] : k \in 0..n }
ImageLists == Prefixes(101, MaxImages)
PlateLists == Prefixes(55, MaxPlates)

\* A container reference of a caller: absent, a name, an id, the id 0 (which
\* Python takes for absent), or a value of a wrong type.
Refs == {PyNone, PyStr("A"), PyInt(7), PyInt(0), PyFloat}

\* The datasets another client of the server links images to.
OtherClientDatasets == {8}

\* One document of the import's yaml output: the keys it has and their lists.
Docs ==
    { d \in [hasImage : BOOLEAN, Image : ImageLists,
             hasPlate : BOOLEAN, Plate : PlateLists] :
        /\ d.hasImage \/ d.hasPlate
        /\ ~d.hasImage => d.Image = <<>>
        /\ ~d.hasPlate => d.Plate = <<>> }
ImportResults == {<<>>} \cup { <<d>> : d \in Docs }

\* Values of the annotation dict: a string, a number, or a list of those.
ValueLists == UNION { [1..k -> {PyStr("a"), PyInt(5)}] : k \in 0..MaxVals }
AnnValues == {PyStr("a"), PyInt(5)} \cup { PyList(l) : l \in ValueLists }
\* Annotation dicts in insertion order, keys "k1" then 2.
AnnDicts ==
    {PyDict(<<>>)}
    \cup { PyDict(<< <<PyStr("k1"), a>> >>) : a \in AnnValues }
    \cup { PyDict(<< <<PyStr("k1"), a>>, <<PyInt(2), b>> >>) : a \in AnnValues, b \in AnnValues }
\* What a direct caller of multi_post_map_annotation passes as kv_dict.
AnnArgs == AnnDicts \cup {PyNone, PyFloat}
\* What a caller of ezimport passes as ann.
RunAnns == {PyNone,
            PyDict(<< <<PyStr("stain"), PyList(<<PyStr("DAPI"), PyStr("GFP")>>)>> >>),
            PyFloat}
Namespaces == {PyNone, PyStr("ns1")}
\* What a direct caller of multi_post_map_annotation passes as object_ids.
ObjectIdArgs == {PyInt(101), PyNone} \cup { PyList(l) : l \in ImageLists }

Kinds == {"Project", "Dataset", "Screen"}

VARIABLES
    entry,          \* the function the caller runs
    project, dataset, screen, ann, ns,      \* the arguments / Importer fields
    import_result, imported, image_ids, plate_ids,  \* Importer fields
    orphans, project_id, dataset_id, screen_id, idx, organize_rv,  \* organize_* locals
    object_type, object_ids, kv_dict, ann_ns, kv_pairs, map_ann, todo,  \* multi_post_map_annotation
    resolved,       \* what the direct set_or_create_* calls returned
    pc, exc, ret,   \* position, raised exception, returned value
    containers, nextId, dsLinks, plLinks, annRecords, annLinks,  \* the server
    calls, logs     \* remote calls issued and messages logged, in order

argVars == <<entry, project, dataset, screen, ann, ns>>
importerVars == <<import_result, imported, image_ids, plate_ids>>
organizeVars == <<orphans, project_id, dataset_id, screen_id, idx, organize_rv>>
annotateVars == <<object_type, object_ids, kv_dict, ann_ns, kv_pairs, map_ann, todo>>
serverVars == <<containers, nextId, dsLinks, plLinks, annRecords, annLinks>>
vars == <<argVars, importerVars, organizeVars, annotateVars, resolved, pc, exc, ret,
          serverVars, calls, logs>>

\* A remote call: the operation and its arguments.
Call(op, name, x, y) == [op |-> op, name |-> name, x |-> x, y |-> y]
\* A logged or printed message about object id.
Log(level, msg, id) == [level |-> level, msg |-> msg, id |-> id]

\* ----------------------------------------------------------- Init
\* The server before the call: a Project, a Dataset and a Screen of id 7, all
\* named "A", the other client's dataset, and no link or annotation yet.
InitServer ==
    /\ containers = { [id |-> 7, kind |-> k, name |-> "A", parent |-> NoneId] : k \in Kinds }
                    \cup { [id |-> d, kind |-> "Dataset", name |-> "theirs", parent |-> NoneId] :
                            d \in OtherClientDatasets }
    /\ nextId = 9
    /\ dsLinks = {}
    /\ plLinks = {}
    /\ annRecords = {}
    /\ annLinks = {}

InitLocals ==
    /\ orphans = {} /\ project_id = NoneId /\ dataset_id = NoneId /\ screen_id = NoneId
    /\ idx = 1 /\ organize_rv = PyNone
    /\ kv_pairs = <<>> /\ map_ann = NoneId /\ todo = {}
    /\ resolved = <<>>
    /\ exc = "none" /\ ret = PyNone
    /\ calls = <<>> /\ logs = <<>>
    /\ import_result = <<>> /\ imported = FALSE

NoAnnotateArgs ==
    object_type = "" /\ object_ids = PyNone /\ kv_dict = PyNone /\ ann_ns = PyNone

\* ezimport(conn, target, project, dataset, screen, ann, ns) is called.
InitEzimport ==
    /\ entry = "ezimport" /\ pc = "new_importer"
    /\ project \in Refs /\ dataset \in Refs /\ screen \in Refs
    /\ ann \in RunAnns /\ ns \in Namespaces
    /\ image_ids = PyNone /\ plate_ids = PyNone
    /\ NoAnnotateArgs

\* organize_images() is called on an Importer whose image_ids the caller set.
InitOrganizeImages ==
    /\ entry = "organize_images" /\ pc = "organize_images"
    /\ project \in Refs /\ dataset \in Refs
    /\ ~(Truthy(project) /\ ~Truthy(dataset))
    /\ screen = PyNone /\ ann = PyNone /\ ns = PyNone
    /\ image_ids \in {PyNone} \cup { PyList(l) : l \in ImageLists }
    /\ plate_ids = PyNone
    /\ NoAnnotateArgs

\* organize_plates() is called on an Importer whose plate_ids the caller set.
InitOrganizePlates ==
    /\ entry = "organize_plates" /\ pc = "organize_plates"
    /\ project = PyNone /\ dataset = PyNone /\ screen \in Refs
    /\ ann = PyNone /\ ns = PyNone
    /\ image_ids = PyNone
    /\ plate_ids \in {PyNone} \cup { PyList(l) : l \in PlateLists }
    /\ NoAnnotateArgs

\* multi_post_map_annotation(conn, "Image", object_ids, kv_dict, ns) is called.
InitAnnotate ==
    /\ entry = "multi_post_map_annotation" /\ pc = "mp_validate"
    /\ project = PyNone /\ dataset = PyNone /\ screen = PyNone
    /\ ann = PyNone /\ ns = PyNone
    /\ image_ids = PyNone /\ plate_ids = PyNone
    /\ object_type = "Image" /\ object_ids \in ObjectIdArgs
    /\ kv_dict \in AnnArgs /\ ann_ns \in Namespaces

\* A caller about to call set_or_create_project / _dataset / _screen.
InitResolve ==
    /\ entry = "set_or_create" /\ pc = "resolve"
    /\ project = PyNone /\ dataset = PyNone /\ screen = PyNone
    /\ ann = PyNone /\ ns = PyNone
    /\ image_ids = PyNone /\ plate_ids = PyNone
    /\ NoAnnotateArgs

Init ==
    /\ InitServer
    /\ InitLocals
    /\ \/ InitEzimport
       \/ InitOrganizeImages
       \/ InitOrganizePlates
       \/ InitAnnotate
       \/ InitResolve

\* ------------------------------------------------- exceptions, returns
Raise(e) == pc' = "raised" /\ exc' = e /\ UNCHANGED ret
Goto(p) == pc' = p /\ UNCHANGED <<exc, ret>>
Return(v) == pc' = "done" /\ ret' = v /\ UNCHANGED exc

\* ------------------------------------------------- Importer.__init__
\* `if self.project and not self.dataset`
ProjectWithoutDataset(p, d) == Truthy(p) /\ ~Truthy(d)

\* imp_ctl = Importer(conn, target, project, dataset, screen, ann, ns)
NewImporter ==
    /\ pc = "new_importer"
    /\ calls' = Append(calls, Call("getSession", "", NoneId, NoneId))
    /\ IF ProjectWithoutDataset(project, dataset)
       THEN Raise("ValueError")
       ELSE Goto("imp_ezimport")
    /\ UNCHANGED <<argVars, importerVars, organizeVars, annotateVars, resolved,
                   serverVars, logs>>

\* ------------------------------------------------- Importer.ezimport
\* `if imp_ctl.screen` of ezimport: the pipeline the run takes.
PlatePipeline(s) == Truthy(s)

\* `if self.import_result:` of Importer.ezimport, which is ezimport's `if rv:`
ImportSucceededAlways(r) == TRUE
ImportSucceeded(r) == r # <<>>

\* An import that is submitted again when it gave no result
ImporterEzimportRetry ==
    /\ pc = "imp_ezimport"
    /\ \E r \in ImportResults :
        /\ import_result' = r
        /\ imported' = ImportSucceeded(r)
        /\ calls' = calls \o << Call("getSession", "", NoneId, NoneId),
                                Call("import", "", NoneId, NoneId) >>
        /\ IF ImportSucceeded(r)
           THEN /\ logs' = Append(logs, Log("print", "Imported", NoneId))
                /\ Goto(IF PlatePipeline(screen) THEN "get_plate_ids"
                                                 ELSE "get_my_image_ids")
           ELSE /\ logs' = Append(logs, Log("error", "Import has failed", NoneId))
                /\ IF Len(calls) < 2 THEN Goto("imp_ezimport") ELSE Return(PyNone)
    /\ UNCHANGED <<argVars, image_ids, plate_ids, organizeVars, annotateVars, resolved,
                   serverVars>>

\* rv = imp_ctl.ezimport(), and ezimport's `if rv:` with its fall-through.
ImporterEzimport ==
    /\ pc = "imp_ezimport"
    /\ \E r \in ImportResults :
        /\ import_result' = r
        /\ imported' = ImportSucceeded(r)
        /\ calls' = calls \o << Call("getSession", "", NoneId, NoneId),
                                Call("import", "", NoneId, NoneId) >>
        /\ IF ImportSucceeded(r)
           THEN /\ logs' = Append(logs, Log("print", "Imported", NoneId))
                /\ Goto(IF PlatePipeline(screen) THEN "get_plate_ids"
                                                 ELSE "get_my_image_ids")
           ELSE /\ logs' = Append(logs, Log("error", "Import has failed", NoneId))
                /\ Return(PyNone)
    /\ UNCHANGED <<argVars, image_ids, plate_ids, organizeVars, annotateVars, resolved,
                   serverVars>>

\* imp_ctl.get_plate_ids(): self.import_result[0]['Plate']
GetPlateIds ==
    /\ pc = "get_plate_ids"
    /\ IF import_result[1].hasPlate
       THEN plate_ids' = PyList(import_result[1].Plate) /\ Goto("organize_plates")
       ELSE plate_ids' = plate_ids /\ Raise("KeyError")
    /\ UNCHANGED <<argVars, import_result, imported, image_ids, organizeVars, annotateVars,
                   resolved, serverVars, calls, logs>>

\* imp_ctl.get_my_image_ids(): self.import_result[0]['Image']
GetMyImageIds ==
    /\ pc = "get_my_image_ids"
    /\ IF import_result[1].hasImage
       THEN image_ids' = PyList(import_result[1].Image) /\ Goto("organize_images")
       ELSE image_ids' = image_ids /\ Raise("KeyError")
    /\ UNCHANGED <<argVars, import_result, imported, plate_ids, organizeVars, annotateVars,
                   resolved, serverVars, calls, logs>>

\* ------------------------------------------------- the server's calls
\* get_image_ids(conn): the images no dataset holds.
get_image_ids == { im \in ImageIds : ~ \E l \in dsLinks : l[1] = im }

\* post_project / post_dataset / post_screen: the server makes a container and
\* assigns it the next id.
post_container(kind, name, parent) ==
    /\ containers' = containers \cup
           {[id |-> nextId, kind |-> kind, name |-> name, parent |-> parent]}
    /\ nextId' = nextId + 1

\* `if project_id:`, `if dataset_id:` on an id or None.
IdGiven(id) == id # NoneId /\ id # 0

\* ------------------------------------------------- set_or_create_*
\* What a call can come to: an exception or the returned id, and whether a
\* post_* call was issued (with which parent). A post_* call may fail.
Outcome(e, id, post, parent) == [exc |-> e, id |-> id, post |-> post, parent |-> parent]

\* A resolver that looks for a Project of that name before it creates one
FindOrCreateProject(ref) ==
    IF ref.t = "str" /\ \E c \in containers : c.kind = "Project" /\ c.name = ref.s
    THEN { Outcome("none", (CHOOSE c \in containers : c.kind = "Project" /\ c.name = ref.s).id,
                   FALSE, NoneId) }
    ELSE IF ref.t = "str"
    THEN { Outcome("none", nextId, TRUE, NoneId),
           Outcome("RemoteError", NoneId, TRUE, NoneId) }
    ELSE IF ref.t = "int"
    THEN { Outcome("none", ref.n, FALSE, NoneId) }
    ELSE { Outcome("TypeError", NoneId, FALSE, NoneId) }

set_or_create_project(ref) ==
    IF ref.t = "str"
    THEN { Outcome("none", nextId, TRUE, NoneId),
           Outcome("RemoteError", NoneId, TRUE, NoneId) }
    ELSE IF ref.t = "int"
    THEN { Outcome("none", ref.n, FALSE, NoneId) }
    ELSE { Outcome("TypeError", NoneId, FALSE, NoneId) }

\* A resolver that creates the Dataset outside of any Project
CreateDatasetUnparented(pid, ref) ==
    IF ref.t = "str"
    THEN { Outcome("none", nextId, TRUE, NoneId),
           Outcome("RemoteError", NoneId, TRUE, NoneId) }
    ELSE IF ref.t = "int"
    THEN { Outcome("none", ref.n, FALSE, NoneId) }
    ELSE { Outcome("TypeError", NoneId, FALSE, NoneId) }

set_or_create_dataset(pid, ref) ==
    IF ref.t = "str"
    THEN LET parent == IF IdGiven(pid) THEN pid ELSE NoneId
         IN { Outcome("none", nextId, TRUE, parent),
              Outcome("RemoteError", NoneId, TRUE, parent) }
    ELSE IF ref.t = "int"
    THEN { Outcome("none", ref.n, FALSE, NoneId) }
    ELSE { Outcome("TypeError", NoneId, FALSE, NoneId) }

\* A resolver that looks for a Screen of that name before it creates one
FindOrCreateScreen(ref) ==
    IF ref.t = "str" /\ \E c \in containers : c.kind = "Screen" /\ c.name = ref.s
    THEN { Outcome("none", (CHOOSE c \in containers : c.kind = "Screen" /\ c.name = ref.s).id,
                   FALSE, NoneId) }
    ELSE IF ref.t = "str"
    THEN { Outcome("none", nextId, TRUE, NoneId),
           Outcome("RemoteError", NoneId, TRUE, NoneId) }
    ELSE IF ref.t = "int"
    THEN { Outcome("none", ref.n, FALSE, NoneId) }
    ELSE { Outcome("TypeError", NoneId, FALSE, NoneId) }

set_or_create_screen(ref) ==
    IF ref.t = "str"
    THEN { Outcome("none", nextId, TRUE, NoneId),
           Outcome("RemoteError", NoneId, TRUE, NoneId) }
    ELSE IF ref.t = "int"
    THEN { Outcome("none", ref.n, FALSE, NoneId) }
    ELSE { Outcome("TypeError", NoneId, FALSE, NoneId) }

\* A resolver that also attaches an existing dataset to the run's project
ResolveAttaching(kind, ref, o) ==
    IF o.post
    THEN /\ calls' = Append(calls, Call("post", kind, o.parent, NoneId))
         /\ IF o.exc = "none"
            THEN /\ post_container(kind, ref.s, o.parent)
                 /\ logs' = Append(logs, Log("print", "Created new " \o kind, o.id))
            ELSE UNCHANGED <<containers, nextId, logs>>
    ELSE IF kind = "Dataset" /\ o.exc = "none" /\ IdGiven(project_id)
    THEN /\ calls' = Append(calls, Call("link_datasets_to_project", "", o.id, project_id))
         /\ containers' = { IF c.kind = "Dataset" /\ c.id = o.id
                            THEN [c EXCEPT !.parent = project_id] ELSE c : c \in containers }
         /\ UNCHANGED <<nextId, logs>>
    ELSE UNCHANGED <<containers, nextId, calls, logs>>

\* The effect of outcome o of set_or_create_<kind>(ref) on the server, the
\* calls and the output: the post_* call, the container, the print.
Resolve(kind, ref, o) ==
    IF o.post
    THEN /\ calls' = Append(calls, Call("post", kind, o.parent, NoneId))
         /\ IF o.exc = "none"
            THEN /\ post_container(kind, ref.s, o.parent)
                 /\ logs' = Append(logs, Log("print", "Created new " \o kind, o.id))
            ELSE UNCHANGED <<containers, nextId, logs>>
    ELSE UNCHANGED <<containers, nextId, calls, logs>>

\* ------------------------------------------------- Importer.organize_images
\* Where the caller of organize_images / organize_plates goes on with v.
AfterOrganize(v, next) ==
    /\ organize_rv' = v
    /\ IF entry = "ezimport" THEN Goto(next) ELSE Return(v)

\* `if not self.image_ids` ... `orphans = get_image_ids(self.conn)`
OrganizeImages ==
    /\ pc = "organize_images"
    /\ \/ /\ ~Truthy(image_ids)
          /\ logs' = Append(logs, Log("error", "No image ids to organize", NoneId))
          /\ AfterOrganize(PyFalse, "annotate_images")
          /\ UNCHANGED <<orphans, calls>>
       \/ /\ Truthy(image_ids)
          /\ calls' = Append(calls, Call("get_image_ids", "", NoneId, NoneId))
          /\ orphans' = get_image_ids
          /\ Goto("oi_project")
          /\ UNCHANGED <<organize_rv, logs>>
       \/ /\ Truthy(image_ids)
          /\ calls' = Append(calls, Call("get_image_ids", "", NoneId, NoneId))
          /\ Raise("RemoteError")
          /\ UNCHANGED <<orphans, organize_rv, logs>>
    /\ UNCHANGED <<argVars, importerVars, project_id, dataset_id, screen_id, idx,
                   annotateVars, resolved, serverVars>>

\* `if self.project: project_id = set_or_create_project(...) else: None`
OrganizeImagesProject ==
    /\ pc = "oi_project"
    /\ IF Truthy(project)
       THEN \E o \in set_or_create_project(project) :
              /\ Resolve("Project", project, o)
              /\ project_id' = o.id
              /\ IF o.exc = "none" THEN Goto("oi_dataset") ELSE Raise(o.exc)
       ELSE /\ project_id' = NoneId
            /\ Goto("oi_dataset")
            /\ UNCHANGED <<containers, nextId, calls, logs>>
    /\ UNCHANGED <<argVars, importerVars, orphans, dataset_id, screen_id, idx, organize_rv,
                   annotateVars, resolved, dsLinks, plLinks, annRecords, annLinks>>

\* `if self.dataset: dataset_id = set_or_create_dataset(...) else: None`
OrganizeImagesDataset ==
    /\ pc = "oi_dataset"
    /\ IF Truthy(dataset)
       THEN \E o \in set_or_create_dataset(project_id, dataset) :
              /\ Resolve("Dataset", dataset, o)
              /\ dataset_id' = o.id
              /\ IF o.exc = "none" THEN Goto("oi_loop") ELSE Raise(o.exc)
       ELSE /\ dataset_id' = NoneId
            /\ Goto("oi_loop")
            /\ UNCHANGED <<containers, nextId, calls, logs>>
    /\ idx' = 1
    /\ UNCHANGED <<argVars, importerVars, orphans, project_id, screen_id, organize_rv,
                   annotateVars, resolved, dsLinks, plLinks, annRecords, annLinks>>

\* An orphan check that asks the server again before each link
OrphanRecheck(im, orph) == im \notin orph \/ im \notin get_image_ids

\* `im_id not in orphans`
OrphanCheckInverted(im, orph) == im \in orph
OrphanCheckSkipped(im, orph) == FALSE
NotAnOrphan(im, orph) == im \notin orph

\* A loop that logs a failed link and goes on with the next image
OrganizeImagesLoopSwallow ==
    /\ pc = "oi_loop"
    /\ idx <= Len(image_ids.v)
    /\ LET im_id == image_ids.v[idx] IN
         IF NotAnOrphan(im_id, orphans)
         THEN /\ logs' = Append(logs, Log("error", "not an orphan", im_id))
              /\ UNCHANGED <<dsLinks, calls>>
         ELSE IF IdGiven(dataset_id)
         THEN \/ /\ calls' = Append(calls, Call("link_images_to_dataset", "", im_id, dataset_id))
                 /\ dsLinks' = dsLinks \cup {<<im_id, dataset_id>>}
                 /\ logs' = Append(logs, Log("print", "Moved Image", im_id))
              \/ /\ calls' = Append(calls, Call("link_images_to_dataset", "", im_id, dataset_id))
                 /\ logs' = Append(logs, Log("error", "link failed", im_id))
                 /\ UNCHANGED dsLinks
         ELSE UNCHANGED <<dsLinks, calls, logs>>
    /\ idx' = idx + 1
    /\ Goto("oi_loop")
    /\ UNCHANGED <<argVars, importerVars, orphans, project_id, dataset_id, screen_id,
                   organize_rv, annotateVars, resolved, containers, nextId, plLinks,
                   annRecords, annLinks>>

\* One turn of `for im_id in self.image_ids:`
OrganizeImagesLoop ==
    /\ pc = "oi_loop"
    /\ idx <= Len(image_ids.v)
    /\ LET im_id == image_ids.v[idx] IN
         IF NotAnOrphan(im_id, orphans)
         THEN /\ logs' = Append(logs, Log("error", "not an orphan", im_id))
              /\ idx' = idx + 1
              /\ Goto("oi_loop")
              /\ UNCHANGED <<dsLinks, calls>>
         ELSE IF IdGiven(dataset_id)
         THEN \/ /\ calls' = Append(calls, Call("link_images_to_dataset", "", im_id, dataset_id))
                 /\ dsLinks' = dsLinks \cup {<<im_id, dataset_id>>}
                 /\ logs' = Append(logs, Log("print", "Moved Image", im_id))
                 /\ idx' = idx + 1
                 /\ Goto("oi_loop")
              \/ /\ calls' = Append(calls, Call("link_images_to_dataset", "", im_id, dataset_id))
                 /\ Raise("RemoteError")
                 /\ UNCHANGED <<dsLinks, logs, idx>>
         ELSE /\ idx' = idx + 1
              /\ Goto("oi_loop")
              /\ UNCHANGED <<dsLinks, calls, logs>>
    /\ UNCHANGED <<argVars, importerVars, orphans, project_id, dataset_id, screen_id,
                   organize_rv, annotateVars, resolved, containers, nextId, plLinks,
                   annRecords, annLinks>>

\* `return True` of organize_images
OrganizeImagesReturn ==
    /\ pc = "oi_loop"
    /\ idx > Len(image_ids.v)
    /\ AfterOrganize(PyTrue, "annotate_images")
    /\ UNCHANGED <<argVars, importerVars, orphans, project_id, dataset_id, screen_id, idx,
                   annotateVars, resolved, serverVars, calls, logs>>

\* Another client of the server claims one of the images, an orphan at that
\* moment, for a dataset of its own while organize_images runs.
OtherClientLinks ==
    /\ pc \in {"organize_images", "oi_project", "oi_dataset", "oi_loop"}
    /\ image_ids.t = "list"
    /\ \E i \in 1..Len(image_ids.v), d \in OtherClientDatasets :
         /\ image_ids.v[i] \in get_image_ids
         /\ dsLinks' = dsLinks \cup {<<image_ids.v[i], d>>}
    /\ UNCHANGED <<argVars, importerVars, organizeVars, annotateVars, resolved, pc, exc, ret,
                   containers, nextId, plLinks, annRecords, annLinks, calls, logs>>

\* ------------------------------------------------- Importer.organize_plates
\* `if self.plate_ids:` ... `return False`
OrganizePlates ==
    /\ pc = "organize_plates"
    /\ IF Truthy(plate_ids)
       THEN Goto("op_loop") /\ UNCHANGED organize_rv
       ELSE AfterOrganize(PyFalse, "annotate_plates")
    /\ idx' = 1
    /\ UNCHANGED <<argVars, importerVars, orphans, project_id, dataset_id, screen_id,
                   annotateVars, resolved, serverVars, calls, logs>>

\* One turn of `for pl_id in self.plate_ids:` up to set_or_create_screen
OrganizePlatesLoop ==
    /\ pc = "op_loop"
    /\ idx <= Len(plate_ids.v)
    /\ IF Truthy(screen)
       THEN \E o \in set_or_create_screen(screen) :
              /\ Resolve("Screen", screen, o)
              /\ screen_id' = o.id
              /\ IF o.exc = "none" THEN Goto("op_link") ELSE Raise(o.exc)
              /\ UNCHANGED idx
       ELSE /\ idx' = idx + 1
            /\ Goto("op_loop")
            /\ UNCHANGED <<screen_id, containers, nextId, calls, logs>>
    /\ UNCHANGED <<argVars, importerVars, orphans, project_id, dataset_id, organize_rv,
                   annotateVars, resolved, dsLinks, plLinks, annRecords, annLinks>>

\* link_plates_to_screen(self.conn, [pl_id], screen_id) and the print
OrganizePlatesLink ==
    /\ pc = "op_link"
    /\ LET pl_id == plate_ids.v[idx] IN
         \/ /\ calls' = Append(calls, Call("link_plates_to_screen", "", pl_id, screen_id))
            /\ plLinks' = plLinks \cup {<<pl_id, screen_id>>}
            /\ logs' = Append(logs, Log("print", "Moved Plate", pl_id))
            /\ idx' = idx + 1
            /\ Goto("op_loop")
         \/ /\ calls' = Append(calls, Call("link_plates_to_screen", "", pl_id, screen_id))
            /\ Raise("RemoteError")
            /\ UNCHANGED <<plLinks, logs, idx>>
    /\ UNCHANGED <<argVars, importerVars, orphans, project_id, dataset_id, screen_id,
                   organize_rv, annotateVars, resolved, containers, nextId, dsLinks,
                   annRecords, annLinks>>

\* `return True` of organize_plates
OrganizePlatesReturn ==
    /\ pc = "op_loop"
    /\ idx > Len(plate_ids.v)
    /\ AfterOrganize(PyTrue, "annotate_plates")
    /\ UNCHANGED <<argVars, importerVars, orphans, project_id, dataset_id, screen_id, idx,
                   annotateVars, resolved, serverVars, calls, logs>>

\* ------------------------------------------------- annotate_images / _plates
\* Skipping only when both the annotation and the namespace are missing
SkipsWhenBothMissing(a, n) == ~Truthy(a) /\ ~Truthy(n)

\* `if not self.ann or not self.ns`
SkipsAnnotation(a, n) == ~Truthy(a) \/ ~Truthy(n)

\* An annotation step that annotates only the images found to be orphans
AnnotateImagesOrphansOnly ==
    /\ pc = "annotate_images"
    /\ IF SkipsAnnotation(ann, ns)
       THEN /\ logs' = Append(logs, Log("warning", "skipping annotations", NoneId))
            /\ Return(image_ids)
            /\ UNCHANGED <<object_type, object_ids, kv_dict, ann_ns>>
       ELSE IF Truthy(image_ids)
       THEN /\ object_type' = "Image"
            /\ object_ids' = PyList(SelectSeq(image_ids.v, LAMBDA x : x \in orphans))
            /\ kv_dict' = ann /\ ann_ns' = ns
            /\ Goto("mp_validate")
            /\ UNCHANGED logs
       ELSE /\ Return(image_ids)
            /\ UNCHANGED <<object_type, object_ids, kv_dict, ann_ns, logs>>
    /\ UNCHANGED <<argVars, importerVars, organizeVars, kv_pairs, map_ann, todo, resolved,
                   serverVars, calls>>

\* imp_ctl.annotate_images() and, unless it calls multi_post_map_annotation,
\* ezimport's `return imp_ctl.image_ids`
AnnotateImages ==
    /\ pc = "annotate_images"
    /\ IF SkipsAnnotation(ann, ns)
       THEN /\ logs' = Append(logs, Log("warning", "skipping annotations", NoneId))
            /\ Return(image_ids)
            /\ UNCHANGED <<object_type, object_ids, kv_dict, ann_ns>>
       ELSE IF Truthy(image_ids)
       THEN /\ object_type' = "Image" /\ object_ids' = image_ids
            /\ kv_dict' = ann /\ ann_ns' = ns
            /\ Goto("mp_validate")
            /\ UNCHANGED logs
       ELSE /\ Return(image_ids)
            /\ UNCHANGED <<object_type, object_ids, kv_dict, ann_ns, logs>>
    /\ UNCHANGED <<argVars, importerVars, organizeVars, kv_pairs, map_ann, todo, resolved,
                   serverVars, calls>>

\* imp_ctl.annotate_plates() and, unless it calls multi_post_map_annotation,
\* ezimport's `return imp_ctl.plate_ids`
AnnotatePlates ==
    /\ pc = "annotate_plates"
    /\ IF SkipsAnnotation(ann, ns)
       THEN /\ logs' = Append(logs, Log("warning", "skipping annotations", NoneId))
            /\ Return(plate_ids)
            /\ UNCHANGED <<object_type, object_ids, kv_dict, ann_ns>>
       ELSE IF Truthy(plate_ids)
       THEN /\ object_type' = "Plate" /\ object_ids' = plate_ids
            /\ kv_dict' = ann /\ ann_ns' = ns
            /\ Goto("mp_validate")
            /\ UNCHANGED logs
       ELSE /\ Return(plate_ids)
            /\ UNCHANGED <<object_type, object_ids, kv_dict, ann_ns, logs>>
    /\ UNCHANGED <<argVars, importerVars, organizeVars, kv_pairs, map_ann, todo, resolved,
                   serverVars, calls>>

\* ------------------------------------------------- multi_post_map_annotation
\* `if isinstance(object_ids, int): object_ids = [object_ids]`
NormalizeIds(ids) == IF ids.t = "int" THEN <<ids.n>> ELSE ids.v

\* The checks without the one of `len(object_ids) == 0`
ValidateArgsNoLength(ids, kv) ==
    IF ids.t \notin {"list", "int"} THEN "TypeError"
    ELSE IF kv.t # "dict" THEN "TypeError"
    ELSE "none"

\* The checks of the arguments, in the code's order: the exception or "none".
ValidateArgs(ids, kv) ==
    IF ids.t \notin {"list", "int"} THEN "TypeError"
    ELSE IF Len(NormalizeIds(ids)) = 0 THEN "ValueError"
    ELSE IF kv.t # "dict" THEN "TypeError"
    ELSE "none"

\* One pair per item, a list value written out as one string
PairsOfUnexpanded(k, v) == << <<PyToStr(k), PyToStr(v)>> >>

\* The pairs one item of kv_dict adds to kv_pairs.
PairsOf(k, v) ==
    IF v.t # "list"
    THEN << <<PyToStr(k), PyToStr(v)>> >>
    ELSE [i \in 1..Len(v.v) |-> <<PyToStr(k), PyToStr(v.v[i])>>]

\* `for k, v in kv_dict.items():` ...
RECURSIVE Flatten(_)
Flatten(items) ==
    IF items = <<>> THEN <<>>
    ELSE PairsOf(Head(items)[1], Head(items)[2]) \o Flatten(Tail(items))

\* The argument checks and the building of kv_pairs
MultiPostValidate ==
    /\ pc = "mp_validate"
    /\ IF ValidateArgs(object_ids, kv_dict) = "none"
       THEN /\ object_ids' = PyList(NormalizeIds(object_ids))
            /\ kv_pairs' = Flatten(kv_dict.v)
            /\ Goto("mp_save")
       ELSE /\ Raise(ValidateArgs(object_ids, kv_dict))
            /\ UNCHANGED <<object_ids, kv_pairs>>
    /\ UNCHANGED <<argVars, importerVars, organizeVars, object_type, kv_dict, ann_ns,
                   map_ann, todo, resolved, serverVars, calls, logs>>

\* map_ann = MapAnnotationWrapper(conn); setNs; setValue; map_ann.save()
MultiPostSave ==
    /\ pc = "mp_save"
    /\ calls' = Append(calls, Call("save", "", NoneId, NoneId))
    /\ \/ /\ annRecords' = annRecords \cup
                 {[id |-> nextId, ns |-> PyToStr(ann_ns), pairs |-> kv_pairs]}
          /\ nextId' = nextId + 1
          /\ map_ann' = nextId
          /\ Goto("mp_getobjects")
       \/ /\ Raise("RemoteError")
          /\ UNCHANGED <<annRecords, nextId, map_ann>>
    /\ UNCHANGED <<argVars, importerVars, organizeVars, object_type, object_ids, kv_dict,
                   ann_ns, kv_pairs, todo, resolved, containers, dsLinks, plLinks,
                   annLinks, logs>>

\* conn.getObjects(object_type, object_ids): the objects of these ids, in the
\* order the server gives them
MultiPostGetObjects ==
    /\ pc = "mp_getobjects"
    /\ calls' = Append(calls, Call("getObjects", object_type, NoneId, NoneId))
    /\ \/ /\ todo' = { object_ids.v[i] : i \in 1..Len(object_ids.v) }
          /\ Goto("mp_link")
       \/ /\ Raise("RemoteError")
          /\ UNCHANGED todo
    /\ UNCHANGED <<argVars, importerVars, organizeVars, object_type, object_ids, kv_dict,
                   ann_ns, kv_pairs, map_ann, resolved, serverVars, logs>>

\* Linking that undoes the links already made when one link fails
MultiPostLinkRollback ==
    /\ pc = "mp_link"
    /\ \E o \in todo :
         /\ calls' = Append(calls, Call("linkAnnotation", object_type, o, map_ann))
         /\ \/ /\ annLinks' = annLinks \cup {<<object_type, o, map_ann>>}
               /\ todo' = todo \ {o}
               /\ Goto("mp_link")
            \/ /\ Raise("RemoteError")
               /\ annLinks' = {}
               /\ UNCHANGED todo
    /\ UNCHANGED <<argVars, importerVars, organizeVars, object_type, object_ids, kv_dict,
                   ann_ns, kv_pairs, map_ann, resolved, containers, nextId, dsLinks,
                   plLinks, annRecords, logs>>

\* o.linkAnnotation(map_ann) for the next object
MultiPostLink ==
    /\ pc = "mp_link"
    /\ \E o \in todo :
         /\ calls' = Append(calls, Call("linkAnnotation", object_type, o, map_ann))
         /\ \/ /\ annLinks' = annLinks \cup {<<object_type, o, map_ann>>}
               /\ todo' = todo \ {o}
               /\ Goto("mp_link")
            \/ /\ Raise("RemoteError")
               /\ UNCHANGED <<annLinks, todo>>
    /\ UNCHANGED <<argVars, importerVars, organizeVars, object_type, object_ids, kv_dict,
                   ann_ns, kv_pairs, map_ann, resolved, containers, nextId, dsLinks,
                   plLinks, annRecords, logs>>

\* `return map_ann.getId()`, and in a run of ezimport its `return
\* imp_ctl.image_ids` / `return imp_ctl.plate_ids`
MultiPostReturn ==
    /\ pc = "mp_link"
    /\ todo = {}
    /\ Return(IF entry = "ezimport"
              THEN (IF object_type = "Plate" THEN plate_ids ELSE image_ids)
              ELSE PyInt(map_ann))
    /\ UNCHANGED <<argVars, importerVars, organizeVars, annotateVars, resolved,
                   serverVars, calls, logs>>

\* ------------------------------------------------- direct resolver calls
\* A caller calls set_or_create_project, _dataset or _screen once more.
ResolveCall ==
    /\ pc = "resolve"
    /\ Len(resolved) < MaxCalls
    /\ \E kind \in Kinds, ref \in Refs, pid \in {NoneId, 7} :
         /\ kind # "Dataset" => pid = NoneId
         /\ \E o \in (CASE kind = "Project" -> set_or_create_project(ref)
                        [] kind = "Dataset" -> set_or_create_dataset(pid, ref)
                        [] kind = "Screen" -> set_or_create_screen(ref)) :
              /\ Resolve(kind, ref, o)
              /\ IF o.exc = "none"
                 THEN /\ resolved' = Append(resolved,
                             [kind |-> kind, ref |-> ref, pid |-> pid, id |-> o.id,
                              before |-> containers])
                      /\ pc' = "resolve" /\ ret' = PyInt(o.id) /\ UNCHANGED exc
                 ELSE Raise(o.exc) /\ UNCHANGED resolved
    /\ UNCHANGED <<argVars, importerVars, organizeVars, annotateVars, dsLinks, plLinks,
                   annRecords, annLinks>>

Next ==
    \/ NewImporter
    \/ ImporterEzimport
    \/ GetPlateIds
    \/ GetMyImageIds
    \/ OrganizeImages
    \/ OrganizeImagesProject
    \/ OrganizeImagesDataset
    \/ OrganizeImagesLoop
    \/ OrganizeImagesReturn
    \/ OtherClientLinks
    \/ OrganizePlates
    \/ OrganizePlatesLoop
    \/ OrganizePlatesLink
    \/ OrganizePlatesReturn
    \/ AnnotateImages
    \/ AnnotatePlates
    \/ MultiPostValidate
    \/ MultiPostSave
    \/ MultiPostGetObjects
    \/ MultiPostLink
    \/ MultiPostReturn
    \/ ResolveCall

Spec == Init /\ [][Next]_vars

\* =================================================================
\* Properties
\* =================================================================
CallsOf(ops) == SelectSeq(calls, LAMBDA c : c.op \in ops)
LogsOf(msg) == SelectSeq(logs, LAMBDA l : l.msg = msg)
\* The calls that organize or annotate: query, create, link, persist.
OrganizeOps == {"get_image_ids", "post", "link_images_to_dataset", "link_plates_to_screen"}
AnnotateOps == {"save", "getObjects", "linkAnnotation"}
\* The containers the server had before the call.
InitialContainers == { c \in containers : c.id < 9 }
\* ezimport is past the submission of the import.
Submitted == entry = "ezimport" /\ CallsOf({"import"}) # <<>>

\* C1: a run whose submission produced a result document picks its pipeline
\* by the content of the result (plate ids if the plate list is non-empty,
\* else image ids), returns that id list, and never fails on a missing
\* artifact kind.
C1_PipelineByResultContent ==
    (Submitted /\ import_result # <<>>) =>
        /\ exc # "KeyError"
        /\ pc = "done" =>
             ret = IF import_result[1].Plate # <<>>
                   THEN PyList(import_result[1].Plate)
                   ELSE PyList(import_result[1].Image)

\* C2: a submission that produces no result document makes the run return
\* None with the import failure logged and no exception, and no organize or
\* annotate call, container, link or annotation record follows.
C2_EmptyResultReturnsNone ==
    (Submitted /\ import_result = <<>>) =>
        /\ pc = "done" /\ ret = PyNone /\ exc = "none"
        /\ logs = << Log("error", "Import has failed", NoneId) >>
        /\ CallsOf(OrganizeOps \cup AnnotateOps) = <<>>
        /\ calls[Len(calls)].op = "import"
        /\ containers = InitialContainers
        /\ dsLinks = {} /\ plLinks = {} /\ annRecords = {} /\ annLinks = {}
        /\ organize_rv = PyNone /\ map_ann = NoneId

C2_Witness ==
    Submitted /\ import_result = <<>> /\ pc = "done" /\ Truthy(dataset) /\ Truthy(ann)

\* C3: a run given a project and no dataset is rejected with a ValueError
\* before any call on the server connection or the import bridge.
C3_RejectedBeforeAnyCall ==
    (entry = "ezimport" /\ Truthy(project) /\ ~Truthy(dataset) /\ pc # "new_importer") =>
        /\ pc = "raised" /\ exc = "ValueError"
        /\ calls = <<>>

\* C4: a container reference or an annotation map of a wrong type is raised
\* as an error before any remote call of the run: no import is submitted, no
\* orphan query is made, nothing is created or linked.
C4_TypeErrorBeforeAnyCall ==
    (entry = "ezimport" /\ exc = "TypeError") =>
        /\ CallsOf({"import"} \cup OrganizeOps \cup AnnotateOps) = <<>>
        /\ containers = InitialContainers
        /\ dsLinks = {} /\ plLinks = {}

\* organize_images has returned (to ezimport or to its direct caller).
ImagesOrganized ==
    /\ organize_rv # PyNone
    /\ entry = "organize_images" \/ (entry = "ezimport" /\ plate_ids = PyNone)
ImageLinkCalls == CallsOf({"link_images_to_dataset"})
AllOrphans == \A i \in 1..Len(image_ids.v) : image_ids.v[i] \in orphans
NoOrphans == \A i \in 1..Len(image_ids.v) : image_ids.v[i] \notin orphans
\* dataset_id is what the dataset reference resolves to: the id given, or a
\* Dataset of the given name that the call created.
DatasetResolved ==
    /\ dataset.t = "int" => dataset_id = dataset.n
    /\ dataset.t = "str" =>
         \E c \in containers \ InitialContainers :
             c.id = dataset_id /\ c.kind = "Dataset" /\ c.name = dataset.s

\* C5: organize_images on a non-empty image_ids whose ids are all in the
\* orphan set it read, with a dataset given, has issued one link call per
\* image id, in order, each to the resolved dataset, and returned True.
C5_AllOrphansLinked ==
    (ImagesOrganized /\ Truthy(image_ids) /\ AllOrphans /\ Truthy(dataset)) =>
        /\ organize_rv = PyTrue
        /\ DatasetResolved
        /\ Len(ImageLinkCalls) = Len(image_ids.v)
        /\ \A i \in 1..Len(image_ids.v) :
             /\ ImageLinkCalls[i] =
                    Call("link_images_to_dataset", "", image_ids.v[i], dataset_id)
             /\ <<image_ids.v[i], dataset_id>> \in dsLinks

C5_Witness ==
    /\ ImagesOrganized /\ AllOrphans /\ Len(image_ids.v) = 2
    /\ dataset.t = "str" /\ project.t = "str"
    /\ Len(ImageLinkCalls) = 2

C7_EmptyIdsNoCall ==
    (ImagesOrganized /\ image_ids \in {PyNone, PyList(<<>>)}) =>
        /\ organize_rv = PyFalse
        /\ entry = "organize_images" => (calls = <<>> /\ pc = "done" /\ ret = PyFalse)
        /\ CallsOf(OrganizeOps) = <<>>
        /\ containers = InitialContainers
        /\ dsLinks = {}
        /\ project_id = NoneId /\ dataset_id = NoneId

C7_Witness ==
    /\ ImagesOrganized /\ image_ids = PyList(<<>>) /\ organize_rv = PyFalse
    /\ Truthy(dataset) /\ Truthy(project)

\* multi_post_map_annotation has returned.
AnnotateReturned == pc = "done" /\ map_ann # NoneId
\* The number of pairs a value stands for: a list its length, a scalar 1.
ValueLen(v) == IF v.t = "list" THEN Len(v.v) ELSE 1
RECURSIVE SumLens(_, _)
SumLens(items, n) == IF n = 0 THEN 0 ELSE SumLens(items, n - 1) + ValueLen(items[n][2])

\* C8: when multi_post_map_annotation returns, kv_pairs has as many pairs as
\* the sum of the value lengths, the pairs of item j follow those of the items
\* before it, carry its key and keep the order of its elements, and exactly
\* one annotation record with these pairs was saved, by one save call, and is
\* linked to every target.
C8_FlattenAndOneRecord ==
    AnnotateReturned =>
        /\ Len(kv_pairs) = SumLens(kv_dict.v, Len(kv_dict.v))
        /\ \A j \in 1..Len(kv_dict.v) :
             LET k == kv_dict.v[j][1]
                 v == kv_dict.v[j][2]
             IN \A i \in 1..ValueLen(v) :
                    kv_pairs[SumLens(kv_dict.v, j - 1) + i] =
                        << PyToStr(k), PyToStr(IF v.t = "list" THEN v.v[i] ELSE v) >>
        /\ annRecords = {[id |-> map_ann, ns |-> PyToStr(ann_ns), pairs |-> kv_pairs]}
        /\ Len(CallsOf({"save"})) = 1
        /\ annLinks = { <<object_type, object_ids.v[i], map_ann>> : i \in 1..Len(object_ids.v) }
        /\ object_ids.v # <<>>

C8_Witness ==
    /\ AnnotateReturned /\ entry = "multi_post_map_annotation"
    /\ Len(object_ids.v) = 2
    /\ Len(kv_dict.v) = 2
    /\ kv_dict.v[1][2] = PyList(<<PyStr("a"), PyInt(5)>>)
    /\ kv_dict.v[2][2] = PyInt(5)
    /\ kv_pairs = << <<"k1", "a">>, <<"k1", "5">>, <<"2", "5">> >>

\* C9: multi_post_map_annotation called with an empty object_ids list raises
\* ValueError with no call made, no record and no link; called with a bare
\* integer it goes on with the one-element list of that integer.
C9_EmptyIdsValueError ==
    /\ [](  (entry = "multi_post_map_annotation" /\ object_ids = PyList(<<>>)
                /\ pc # "mp_validate")
            => /\ pc = "raised" /\ exc = "ValueError"
               /\ calls = <<>> /\ annRecords = {} /\ annLinks = {} /\ map_ann = NoneId )
    /\ [][ (pc = "mp_validate" /\ object_ids.t = "int")
            => IF kv_dict.t = "dict"
               THEN pc' = "mp_save" /\ object_ids' = PyList(<<object_ids.n>>)
               ELSE pc' = "raised" /\ exc' = "TypeError" ]_vars

C9_Witness ==
    /\ entry = "multi_post_map_annotation" /\ object_ids = PyList(<<>>)
    /\ kv_dict.t = "dict" /\ Truthy(kv_dict)
    /\ pc = "raised" /\ exc = "ValueError"

\* The direct set_or_create_* calls that were given a name.
NamedCalls == { i \in 1..Len(resolved) : resolved[i].ref.t = "str" }

\* C10: set_or_create_* returns a numeric reference unchanged and issues no
\* creation call for it; for a name it issues exactly one creation call and
\* returns the id of the container it made, which no container had before,
\* so that the calls given one name leave as many more containers of that
\* name, all distinct.
C10_ResolveCreatesAlways ==
    entry = "set_or_create" =>
        /\ \A i \in 1..Len(resolved) :
             LET r == resolved[i] IN
               /\ r.ref.t = "int" => r.id = r.ref.n
               /\ r.ref.t = "str" =>
                    /\ r.id \notin { c.id : c \in r.before }
                    /\ \E c \in containers :
                         c.id = r.id /\ c.kind = r.kind /\ c.name = r.ref.s
        /\ Len(CallsOf({"post"})) =
               Cardinality(NamedCalls) + (IF exc = "RemoteError" THEN 1 ELSE 0)
        /\ \A i, j \in NamedCalls : i # j => resolved[i].id # resolved[j].id
        /\ \A k \in Kinds :
             Cardinality({ c \in containers : c.kind = k /\ c.name = "A" }) =
               1 + Cardinality({ i \in NamedCalls :
                                   resolved[i].kind = k /\ resolved[i].ref.s = "A" })

C10_Witness ==
    /\ entry = "set_or_create" /\ Len(resolved) = 2
    /\ \A i \in 1..2 : resolved[i].kind = "Project" /\ resolved[i].ref = PyStr("A")
    /\ resolved[1].id # resolved[2].id


\* ezimport has organized the artifacts of its pipeline and is past the
\* annotate step.
PastAnnotate ==
    /\ entry = "ezimport" /\ organize_rv # PyNone
    /\ pc \notin {"annotate_images", "annotate_plates"}
\* The id list of the pipeline the run took.
PipelineIds == IF plate_ids # PyNone THEN plate_ids ELSE image_ids

\* C11: in a run of ezimport without an annotation dict or without a
\* namespace the annotate step does nothing: no annotation call, record or
\* link, no exception, one 'skipping annotations' warning, and the run
\* returns the id list of the import result.
C11_AnnotateNoOp ==
    (PastAnnotate /\ (ann = PyNone \/ ns = PyNone)) =>
        /\ pc = "done" /\ exc = "none"
        /\ CallsOf(AnnotateOps) = <<>>
        /\ annRecords = {} /\ annLinks = {} /\ map_ann = NoneId
        /\ logs[Len(logs)] = Log("warning", "skipping annotations", NoneId)
        /\ ret = PipelineIds
        /\ ret.v = IF plate_ids # PyNone THEN import_result[1].Plate
                                         ELSE import_result[1].Image

C11_Witness ==
    /\ PastAnnotate /\ ann.t = "dict" /\ ns = PyNone
    /\ pc = "done" /\ Len(ret.v) = 2 /\ Len(ImageLinkCalls) = 2

\* organize_plates has returned (to ezimport or to its direct caller).
PlatesOrganized ==
    /\ organize_rv # PyNone
    /\ entry = "organize_plates" \/ (entry = "ezimport" /\ plate_ids # PyNone)
PlateLinkCalls == CallsOf({"link_plates_to_screen"})
\* s is what the screen reference resolves to: the id given, or a Screen of
\* the given name that the call created.
ScreenResolved(s) ==
    /\ screen.t = "int" => s = screen.n
    /\ screen.t = "str" =>
         \E c \in containers \ InitialContainers :
             c.id = s /\ c.kind = "Screen" /\ c.name = screen.s

C12_WitnessNoScreen ==
    /\ PlatesOrganized /\ Len(plate_ids.v) = 2 /\ screen = PyNone
    /\ organize_rv = PyTrue


PostCalls(kind) == SelectSeq(calls, LAMBDA c : c.op = "post" /\ c.name = kind)

\* C13: in a run of ezimport every container reference is resolved once: at
\* most one creation call per kind of container, whatever the number of
\* images or plates, and all plates of the run are linked to one screen and
\* all images to one dataset.
C13_ResolveOncePerRun ==
    entry = "ezimport" =>
        /\ \A k \in Kinds : Len(PostCalls(k)) <= 1
        /\ \A a, b \in plLinks : a[2] = b[2]
        /\ \A i, j \in 1..Len(ImageLinkCalls) : ImageLinkCalls[i].y = ImageLinkCalls[j].y

AnnLinkCalls == CallsOf({"linkAnnotation"})
\* The place of the first call of operation op in calls (0: none).
FirstCall(op) ==
    IF \E i \in 1..Len(calls) : calls[i].op = op
    THEN CHOOSE i \in 1..Len(calls) :
            calls[i].op = op /\ \A j \in 1..(i - 1) : calls[j].op # op
    ELSE 0
\* The link of the annotation to a target has failed.
AnnLinkFailed ==
    /\ exc = "RemoteError" /\ calls # <<>>
    /\ calls[Len(calls)].op = "linkAnnotation"

\* C14: in multi_post_map_annotation the record is saved before the first
\* link is attempted and the targets are linked one call each; when the link
\* to the k-th target fails, the record is still there, the k-1 links made
\* before are still there, and neither the failed target nor a later one is
\* linked.
C14_SaveThenLinkNoRollback ==
    /\ AnnLinkCalls # <<>> =>
         /\ FirstCall("save") > 0 /\ FirstCall("save") < FirstCall("linkAnnotation")
         /\ annRecords = {[id |-> map_ann, ns |-> PyToStr(ann_ns), pairs |-> kv_pairs]}
         /\ \A i, j \in 1..Len(AnnLinkCalls) :
              i # j => AnnLinkCalls[i].x # AnnLinkCalls[j].x
    /\ AnnLinkFailed =>
         /\ pc = "raised"
         /\ annLinks = { <<object_type, AnnLinkCalls[i].x, map_ann>> :
                            i \in 1..(Len(AnnLinkCalls) - 1) }
         /\ Cardinality(annLinks) = Len(AnnLinkCalls) - 1
         /\ \A o \in todo : <<object_type, o, map_ann>> \notin annLinks
         /\ AnnLinkCalls[Len(AnnLinkCalls)].x \in todo

C14_Witness ==
    /\ AnnLinkFailed /\ Len(AnnLinkCalls) = 2 /\ Cardinality(annLinks) = 1
    /\ Cardinality(annRecords) = 1


\* What call c leaves on the server when it succeeds.
Effect(c) ==
    CASE c.op = "link_images_to_dataset" -> <<c.x, c.y>> \in dsLinks
      [] c.op = "link_plates_to_screen" -> <<c.x, c.y>> \in plLinks
      [] c.op = "linkAnnotation" -> <<c.name, c.x, c.y>> \in annLinks
      [] OTHER -> TRUE
\* 1 if the last call is a failed call of operation op, else 0.
FailedLast(op) ==
    IF exc = "RemoteError" /\ calls # <<>> /\ calls[Len(calls)].op = op THEN 1 ELSE 0

\* C15: a failed remote call ends the run with the exception at the caller:
\* the failing function returns nothing, the failed call is the last call issued (no retry, no
\* call of a later step), and every call before it has kept its effect: the
\* containers and the annotation record created and the links made remain.
C15_FailureHaltsNoRollback ==
    /\ exc = "RemoteError" =>
         /\ pc = "raised" /\ calls # <<>>
         /\ entry # "set_or_create" => ret = PyNone
    /\ \A i \in 1..(Len(calls) - 1) : Effect(calls[i])
    /\ exc = "none" => \A i \in 1..Len(calls) : Effect(calls[i])
    /\ Cardinality(containers \ InitialContainers) = Len(CallsOf({"post"})) - FailedLast("post")
    /\ Cardinality(annRecords) = Len(CallsOf({"save"})) - FailedLast("save")
    /\ exc = "RemoteError" =>
         calls[Len(calls)].op \in (OrganizeOps \cup AnnotateOps)

C15_Witness ==
    /\ entry = "ezimport" /\ exc = "RemoteError"
    /\ calls[Len(calls)].op = "link_images_to_dataset"
    /\ Len(ImageLinkCalls) = 2 /\ Cardinality(dsLinks) = 1
    /\ Cardinality(containers \ InitialContainers) = 2
    /\ Truthy(ann) /\ Truthy(ns) /\ annRecords = {}


\* The caller runs the image pipeline.
ImageRun == entry = "organize_images" \/ (entry = "ezimport" /\ plate_ids = PyNone)
\* The remote calls of organize_images, in the order issued.
OrganizeImageCalls == CallsOf({"get_image_ids", "post", "link_images_to_dataset"})
\* The step of organize_images a call belongs to.
Rank(c) ==
    CASE c.op = "get_image_ids" -> 0
      [] c.op = "post" /\ c.name = "Project" -> 1
      [] c.op = "post" /\ c.name = "Dataset" -> 2
      [] c.op = "link_images_to_dataset" -> 3
      [] OTHER -> 4
\* The place of image id x in image_ids.
Pos(x) == CHOOSE p \in 1..Len(image_ids.v) : image_ids.v[p] = x

\* C16: the remote calls of organize_images come in this order: one orphan
\* query, then the creation of the Project (for a project name), then the
\* creation of the Dataset (for a dataset name), then the links in the order
\* of image_ids; the Dataset is created with the resolved project id as its
\* parent when a project is given and with no parent otherwise.
C16_OrganizeImagesCallOrder ==
    ImageRun =>
        LET oc == OrganizeImageCalls IN
        /\ oc # <<>> => oc[1].op = "get_image_ids"
        /\ \A i, j \in 1..Len(oc) :
             i < j => /\ Rank(oc[i]) <= Rank(oc[j])
                      /\ Rank(oc[i]) < 3 => Rank(oc[i]) < Rank(oc[j])
                      /\ Rank(oc[i]) = 3 => Pos(oc[i].x) < Pos(oc[j].x)
        /\ \A i \in 1..Len(oc) :
             /\ Rank(oc[i]) = 1 => project.t = "str"
             /\ Rank(oc[i]) = 2 =>
                  /\ dataset.t = "str"
                  /\ oc[i].x = IF Truthy(project) THEN project_id ELSE NoneId
                  /\ Truthy(project) => IdGiven(project_id)
        /\ \A c \in containers \ InitialContainers :
             c.kind = "Dataset" =>
                 c.parent = IF Truthy(project) THEN project_id ELSE NoneId
        /\ (ImagesOrganized /\ organize_rv = PyTrue) =>
             /\ Len(CallsOf({"get_image_ids"})) = 1
             /\ Len(PostCalls("Project")) = IF project.t = "str" /\ Truthy(project) THEN 1 ELSE 0
             /\ Len(PostCalls("Dataset")) = IF dataset.t = "str" /\ Truthy(dataset) THEN 1 ELSE 0

C16_Witness ==
    /\ ImageRun /\ ImagesOrganized
    /\ project.t = "str" /\ dataset.t = "str"
    /\ Len(OrganizeImageCalls) = 5
    /\ \E c \in containers : c.kind = "Dataset" /\ c.id = dataset_id /\ c.parent = project_id


\* Image id im was claimed by the other client and linked by this call.
LinkedByBoth(im) ==
    /\ \E d \in OtherClientDatasets : <<im, d>> \in dsLinks
    /\ <<im, dataset_id>> \in dsLinks
    /\ \E i \in 1..Len(ImageLinkCalls) : ImageLinkCalls[i].x = im

\* C17: organize_images queries the orphans once and decides every link by
\* that answer alone: each image id it has gone past that was in the answer
\* is linked to the dataset by exactly one call, whether or not another
\* client has claimed the image since the query.
C17_OrphansReadOnce ==
    (ImageRun /\ image_ids.t = "list") =>
        /\ Len(CallsOf({"get_image_ids"})) <= 1
        /\ \A i \in 1..Len(image_ids.v) :
             (i < idx /\ image_ids.v[i] \in orphans /\ IdGiven(dataset_id)) =>
                 /\ <<image_ids.v[i], dataset_id>> \in dsLinks
                 /\ Len(SelectSeq(ImageLinkCalls, LAMBDA c : c.x = image_ids.v[i])) = 1

\* The other client links only orphans, so an image linked by both that was
\* in the answer of the query was claimed after the query and before this
\* call linked it.
C17_Witness ==
    /\ ImageRun /\ ImagesOrganized
    /\ \E i \in 1..Len(image_ids.v) :
         image_ids.v[i] \in orphans /\ LinkedByBoth(image_ids.v[i])
    /\ Len(CallsOf({"get_image_ids"})) = 1


\* The places in calls of the calls of the operations ops.
PlacesOf(ops) == { i \in 1..Len(calls) : calls[i].op \in ops }

\* C18: a run of ezimport submits the import at most once, and exactly once
\* in every run that returns; an empty result ends the run at once with None;
\* every organize call comes after the import call, with the result parsed
\* into the id list of the pipeline; every annotate call comes after the
\* organize step has returned and after all its calls; a run that returns
\* ids has been through the organize step.
C18_RunOrder ==
    entry = "ezimport" =>
        /\ Len(CallsOf({"import"})) <= 1
        /\ pc = "done" => Len(CallsOf({"import"})) = 1
        /\ (Submitted /\ import_result = <<>>) => (pc = "done" /\ ret = PyNone)
        /\ \A o \in PlacesOf(OrganizeOps) :
             /\ \E s \in PlacesOf({"import"}) : s < o
             /\ import_result # <<>> /\ PipelineIds.t = "list"
        /\ \A a \in PlacesOf(AnnotateOps) :
             /\ \E s \in PlacesOf({"import"}) : s < a
             /\ \A o \in PlacesOf(OrganizeOps) : o < a
             /\ organize_rv # PyNone
        /\ (pc = "done" /\ import_result # <<>>) =>
             (organize_rv # PyNone /\ ret = PipelineIds)

C18_Witness ==
    /\ entry = "ezimport" /\ pc = "done" /\ ret.t = "list"
    /\ PlacesOf(OrganizeOps) # {} /\ PlacesOf(AnnotateOps) # {}
    /\ Len(CallsOf({"import"})) = 1


\* The image ids of the import result.
ResultImages == { import_result[1].Image[i] : i \in 1..Len(import_result[1].Image) }
\* An image run of ezimport with annotations and namespace given has returned.
AnnotatedImageRun ==
    /\ entry = "ezimport" /\ pc = "done" /\ plate_ids = PyNone
    /\ import_result # <<>> /\ import_result[1].Image # <<>>
    /\ ann # PyNone /\ ann # PyDict(<<>>) /\ ns # PyNone /\ ns # PyStr("")

\* C19: an image run of ezimport that returns, with annotation mapping and
\* namespace given, has saved one annotation record and linked it to every
\* image id of the import result and to nothing else, whether or not
\* organize_images found the id to be an orphan, and returns the whole id
\* list of the result.
C19_AnnotatesSkippedToo ==
    AnnotatedImageRun =>
        /\ Cardinality(annRecords) = 1
        /\ map_ann # NoneId
        /\ annLinks = { <<"Image", im, map_ann>> : im \in ResultImages }
        /\ ret = PyList(import_result[1].Image)

C19_Witness ==
    /\ AnnotatedImageRun /\ IdGiven(dataset_id)
    /\ \E im \in ResultImages :
         /\ im \notin orphans
         /\ <<im, dataset_id>> \notin dsLinks
         /\ <<"Image", im, map_ann>> \in annLinks
         /\ \E i \in 1..Len(ret.v) : ret.v[i] = im


\* organize_images has returned from a run on a non-empty id list with the
\* project given by name and the dataset by a numeric id.
NamedProjectNumericDataset ==
    /\ ImagesOrganized /\ image_ids.t = "list" /\ image_ids.v # <<>>
    /\ project.t = "str" /\ project.s # ""
    /\ dataset.t = "int" /\ dataset.n # 0

\* C20: organize_images with the project given by name and the dataset by an
\* existing numeric id creates one Project and nothing else, issues no
\* remote call but the orphan query, that creation and the image links (in a
\* run of ezimport: besides the import and the annotation calls), leaves the
\* dataset's parent as it was and the new Project without a child, and links
\* each image it read as an orphan to the numeric dataset.
C20_ExistingDatasetNotAttached ==
    NamedProjectNumericDataset =>
        /\ Len(PostCalls("Project")) = 1 /\ PostCalls("Dataset") = <<>>
        /\ containers \ InitialContainers =
             { [id |-> project_id, kind |-> "Project", name |-> project.s, parent |-> NoneId] }
        /\ \A c \in containers : c.parent # project_id
        /\ \A c \in InitialContainers : c.parent = NoneId
        /\ \A i \in 1..Len(calls) :
             calls[i].op \in {"getSession", "import", "get_image_ids", "post",
                              "link_images_to_dataset"} \cup AnnotateOps
        /\ dataset_id = dataset.n
        /\ \A i \in 1..Len(ImageLinkCalls) : ImageLinkCalls[i].y = dataset.n
        /\ \A i \in 1..Len(image_ids.v) :
             image_ids.v[i] \in orphans => <<image_ids.v[i], dataset.n>> \in dsLinks

C20_Witness ==
    /\ NamedProjectNumericDataset /\ pc = "done"
    /\ \E c \in containers : c.kind = "Project" /\ c.id = project_id /\ c.id >= 9
    /\ \E c \in containers : c.kind = "Dataset" /\ c.id = dataset.n /\ c.parent = NoneId
    /\ \E i \in 1..Len(image_ids.v) :
         image_ids.v[i] \in orphans /\ <<image_ids.v[i], dataset.n>> \in dsLinks

====
